---- MODULE Spec2Model ----
(***************************************************************************)
(* A model of the bronco_trade_agents data pipeline: the calendar-aware    *)
(* market clock (data/schedulers/market_clock.py), the collector's         *)
(* scheduling decision and main loop (data/collector.py) and the pipeline  *)
(* entry point with its signal handling (data/pipeline.py).                *)
(*                                                                         *)
(* Time.  An instant is a number of seconds of America/New_York civil time *)
(* counted from 1970-01-01 00:00 (a Thursday); a date is a day number and  *)
(* a time of day a number of seconds in 0 .. 86399.  Daylight-saving       *)
(* transitions are not modelled: the code does all its schedule arithmetic *)
(* on wall-clock values of one zone.                                       *)
(***************************************************************************)
EXTENDS Integers, Sequences, FiniteSets, TLC

VARIABLES
    now,             \* the wall clock, MarketClock.now()
    hours,           \* settings.market_hours
    market_calendar, \* the rows of the market_calendar table
    calendar_cache,  \* MarketClock._calendar_cache: date -> row
    pc,              \* where the process is (see the actions)
    stop_event,      \* pipeline.stop_event
    exit_code,       \* the status the process ended with, or Running
    log,             \* the set of messages logged so far
    iterations,      \* main-loop iterations started
    sleep_until,     \* the instant the current time.sleep() returns
    called,          \* the clock operation a unit call applied
    phase,           \* the value get_market_phase() returned
    run,             \* the value should_run() returned
    wait_time,       \* the value time_until_next_open() returned
    tickers,         \* settings.tickers, the universe in declared order
    vendor,          \* the vendor's pages: resource -> ticker -> pages
    faults,          \* failures the environment may still inject
    trades,          \* the committed rows of table trades, in id order
    quotes,          \* the committed rows of table quotes, in id order
    client,          \* the RESTClient of the cycle: none, open or closed
    ticker_idx,      \* index in tickers of the ticker being collected
    resource,        \* the resource collect_ticker is at
    url,             \* the page _paginate requests next
    attempt,         \* failed attempts of the current _get call
    http_log,        \* the GETs issued for the current resource
    buffer,          \* trades_buffer / quotes_buffer
    error,           \* the exception a call ended with, or NoError
    collected,       \* the collect_ticker calls of the cycle that returned
    clients          \* every RESTClient created so far: open or closed

vars == <<now, hours, market_calendar, calendar_cache, pc, stop_event,
          exit_code, log, iterations, sleep_until, called, phase, run,
          wait_time, tickers, vendor, faults, trades, quotes, client, ticker_idx,
          resource, url, attempt, http_log, buffer, error, collected,
          clients>>

cycleVars == <<client, ticker_idx, resource, url, attempt, http_log, buffer,
               error, collected>>
worldVars == <<tickers, vendor, faults, trades, quotes, client, ticker_idx, resource,
               url, attempt, http_log, buffer, error, collected, clients>>

clockVars == <<now, hours, market_calendar, calendar_cache>>
driverVars == <<pc, stop_event, exit_code, log, iterations, sleep_until>>
resultVars == <<called, phase, run, wait_time>>

-----------------------------------------------------------------------------
(* Dates and times of day *)

DaySeconds == 24 * 3600

HM(h, m) == h * 3600 + m * 60

date_of(dt) == dt \div DaySeconds

time_of(dt) == dt % DaySeconds

combine(d, t) == d * DaySeconds + t

\* date.weekday(): Monday is 0, Saturday 5, Sunday 6; day 0 is a Thursday.
weekday(d) == (d + 3) % 7

-----------------------------------------------------------------------------
(* Configuration *)

MarketHours ==
    [pre_market_open   |-> HM(4, 0),
     pre_market_close  |-> HM(9, 30),
     regular_open      |-> HM(9, 30),
     regular_close     |-> HM(16, 0),
     after_hours_open  |-> HM(16, 0),
     after_hours_close |-> HM(20, 0)]

GRACE_PERIOD_MINUTES == 15

collect_interval_seconds == 60

\* MarketPhase
CLOSED == "closed"
PRE_MARKET == "pre_market"
REGULAR == "regular"
AFTER_HOURS == "after_hours"

MarketPhase == {CLOSED, PRE_MARKET, REGULAR, AFTER_HOURS}

\* A calendar row has no close_time (the column is nullable).
NoTime == 0 - 1

-----------------------------------------------------------------------------
(* MarketClock.get_market_phase *)

has_entry(cache, d) == d \in DOMAIN cache

\* Variant: the status compared in another letter case than the stored one.
is_closed_entry_uppercase(cal_entry) == cal_entry.status = "CLOSED"

is_closed_entry(cal_entry) == cal_entry.status = "closed"

is_early_close_entry(cal_entry) == cal_entry.status = "early_close"

\* Variant: the Regular interval ends at regular_close, not at the
\* effective close of the day.
early_close_phase_regular_close(h, cal_entry, current_time) ==
    IF cal_entry.close_time # NoTime /\ current_time >= cal_entry.close_time
    THEN CLOSED
    ELSE IF h.pre_market_open <= current_time
            /\ current_time < h.regular_open
         THEN PRE_MARKET
         ELSE IF h.regular_open <= current_time
                 /\ current_time < h.regular_close
              THEN REGULAR
              ELSE CLOSED

\* Variant: a row without close_time closes the whole day.
early_close_phase_requires_time(h, cal_entry, current_time) ==
    IF cal_entry.close_time = NoTime \/ current_time >= cal_entry.close_time
    THEN CLOSED
    ELSE IF h.pre_market_open <= current_time
            /\ current_time < h.regular_open
         THEN PRE_MARKET
         ELSE IF h.regular_open <= current_time
                 /\ current_time < cal_entry.close_time
              THEN REGULAR
              ELSE CLOSED

\* The branch taken for a row with status early_close.
early_close_phase(h, cal_entry, current_time) ==
    IF cal_entry.close_time # NoTime /\ current_time >= cal_entry.close_time
    THEN CLOSED
    ELSE LET effective_regular_close ==
                 IF cal_entry.close_time # NoTime
                 THEN cal_entry.close_time
                 ELSE h.regular_close
         IN  IF h.pre_market_open <= current_time
                /\ current_time < h.regular_open
             THEN PRE_MARKET
             ELSE IF h.regular_open <= current_time
                     /\ current_time < effective_regular_close
                  THEN REGULAR
                  ELSE CLOSED

is_weekend(d) == weekday(d) >= 5

\* Variant: the Regular interval includes regular_close.
regular_phase_inclusive_close(h, current_time) ==
    IF h.pre_market_open <= current_time /\ current_time < h.regular_open
    THEN PRE_MARKET
    ELSE IF h.regular_open <= current_time /\ current_time <= h.regular_close
         THEN REGULAR
         ELSE IF h.after_hours_open <= current_time
                 /\ current_time < h.after_hours_close
              THEN AFTER_HOURS
              ELSE CLOSED

\* The regular time-of-day intervals.
regular_phase(h, current_time) ==
    IF h.pre_market_open <= current_time /\ current_time < h.regular_open
    THEN PRE_MARKET
    ELSE IF h.regular_open <= current_time /\ current_time < h.regular_close
         THEN REGULAR
         ELSE IF h.after_hours_open <= current_time
                 /\ current_time < h.after_hours_close
              THEN AFTER_HOURS
              ELSE CLOSED

\* Variant: a row with status open opens the date, weekend or not.
get_market_phase_open_override(h, cache, dt) ==
    LET current_date == date_of(dt)
        current_time == time_of(dt)
    IN  IF has_entry(cache, current_date)
           /\ is_closed_entry(cache[current_date])
        THEN CLOSED
        ELSE IF has_entry(cache, current_date)
                /\ is_early_close_entry(cache[current_date])
             THEN early_close_phase(h, cache[current_date], current_time)
             ELSE IF is_weekend(current_date)
                     /\ ~(has_entry(cache, current_date)
                          /\ cache[current_date].status = "open")
                  THEN CLOSED
                  ELSE regular_phase(h, current_time)

get_market_phase(h, cache, dt) ==
    LET current_date == date_of(dt)
        current_time == time_of(dt)
    IN  IF has_entry(cache, current_date)
           /\ is_closed_entry(cache[current_date])
        THEN CLOSED
        ELSE IF has_entry(cache, current_date)
                /\ is_early_close_entry(cache[current_date])
             THEN early_close_phase(h, cache[current_date], current_time)
             ELSE IF is_weekend(current_date)
                  THEN CLOSED
                  ELSE regular_phase(h, current_time)

\* include_extended = True, the only way the collector calls it.
is_market_open(h, cache, dt) ==
    get_market_phase(h, cache, dt) \in {PRE_MARKET, REGULAR, AFTER_HOURS}

-----------------------------------------------------------------------------
(* MarketClock.time_until_next_open *)

\* Variant: every row that is not open counts as a holiday.
is_holiday_not_open(cache, d) ==
    has_entry(cache, d) /\ cache[d].status # "open"

is_holiday(cache, d) == has_entry(cache, d) /\ cache[d].status = "closed"

\* The while loop: the first day from next_day on that is neither a holiday
\* nor a weekend day.
RECURSIVE next_open_day(_, _)
next_open_day(cache, next_day) ==
    IF ~is_holiday(cache, next_day) /\ ~is_weekend(next_day)
    THEN next_day
    ELSE next_open_day(cache, next_day + 1)

time_until_next_open(h, cache, dt) ==
    LET today == date_of(dt)
        today_open == combine(today, h.pre_market_open)
    IN  IF dt < today_open
        THEN today_open - dt
        ELSE combine(next_open_day(cache, today + 1), h.pre_market_open) - dt

-----------------------------------------------------------------------------
(* DataCollector.should_run *)

\* Variant: the grace period taken in seconds.
grace_end_in_seconds(h) ==
    (h.after_hours_close + GRACE_PERIOD_MINUTES) % DaySeconds

\* (datetime.combine(date, ah_close) + timedelta(minutes=15)).time(): the
\* date is dropped, so a sum past midnight wraps to the small hours.
grace_end(h) == (h.after_hours_close + GRACE_PERIOD_MINUTES * 60) % DaySeconds

in_grace_window(h, dt) ==
    /\ h.after_hours_close <= time_of(dt)
    /\ time_of(dt) < grace_end(h)
    /\ weekday(date_of(dt)) < 5

\* The clock is read twice: once inside is_market_open() (t1) and once for
\* the grace-window test (t2).
should_run(h, cache, t1, t2) ==
    IF is_market_open(h, cache, t1)
    THEN TRUE
    ELSE /\ get_market_phase(h, cache, t2) = CLOSED
         /\ in_grace_window(h, t2)

-----------------------------------------------------------------------------
(* Inputs of the clock operations *)

\* Dates 0 .. NDays - 1 are the dates of the clock and of the calendar rows.
NDays == 7

\* Most rows a calendar holds.
MaxEntries == 2

Dates == 0 .. (NDays - 1)

\* Phase schedules: the default, one whose after-hours session ends ten
\* minutes before midnight, and one without pre-market and after-hours.
LateHours ==
    [pre_market_open   |-> HM(7, 0),
     pre_market_close  |-> HM(9, 30),
     regular_open      |-> HM(9, 30),
     regular_close     |-> HM(16, 0),
     after_hours_open  |-> HM(16, 0),
     after_hours_close |-> HM(23, 50)]

RegularOnlyHours ==
    [pre_market_open   |-> HM(9, 30),
     pre_market_close  |-> HM(9, 30),
     regular_open      |-> HM(9, 30),
     regular_close     |-> HM(18, 0),
     after_hours_open  |-> HM(18, 0),
     after_hours_close |-> HM(18, 0)]

HoursSet == {MarketHours, LateHours, RegularOnlyHours}

\* PhaseSchedule's invariant (spec.md, section 3).
ScheduleInvariant(h) ==
    /\ h.pre_market_open <= h.pre_market_close
    /\ h.pre_market_close = h.regular_open
    /\ h.regular_open <= h.regular_close
    /\ h.regular_close = h.after_hours_open
    /\ h.after_hours_open <= h.after_hours_close

\* Early-close times: each lies strictly between regular_open and
\* after_hours_close of every schedule above (CalendarEntry's invariant).
CloseTimes == {HM(13, 0), HM(17, 0)}

\* The rows a date may have: status open, closed, or early_close with or
\* without a close_time.
Entries ==
    {[status |-> "open", close_time |-> NoTime],
     [status |-> "closed", close_time |-> NoTime],
     [status |-> "early_close", close_time |-> NoTime]}
    \cup {[status |-> "early_close", close_time |-> c] : c \in CloseTimes}

CalendarSet ==
    UNION {[S -> Entries] :
              S \in {T \in SUBSET Dates : Cardinality(T) <= MaxEntries}}

Near(t) == {t - 1, t} \cap (0 .. (DaySeconds - 1))

\* Times of day: every bound the code compares a time with, the second
\* before it, and the times the scenarios of spec.md name.  Between two
\* consecutive bounds every comparison of the code has one value.
SampleTimes(h) ==
    UNION {Near(b) : b \in {h.pre_market_open, h.regular_open,
                            h.regular_close, h.after_hours_close,
                            grace_end(h)} \cup CloseTimes}
    \cup {0, HM(3, 0), HM(10, 0), HM(20, 7), HM(21, 0)}

SampleInstants(h) == {combine(d, t) : d \in Dates, t \in SampleTimes(h)}

-----------------------------------------------------------------------------
(* The vendor's records and the repository (data/repositories.py)          *)

\* The symbols the vendor knows, and the universes the tickers file may
\* declare (load_tickers fails on an empty one).
Symbols == {"AAPL", "MSFT"}

Universes == {<<"AAPL">>, <<"AAPL", "MSFT">>}

Resources == {"trades", "quotes"}

\* A field the vendor left out: dict.get() gives None.
None == 0 - 1

\* A trade without "id".
NoId == ""

\* str(t.get("id")): an absent id is stored as the text "None".
str(id) == IF id = NoId THEN "None" ELSE id

\* Wire records of the vendor.  sip_timestamp is in nanoseconds; an absent
\* sip_timestamp and the value 0 are both falsy to save_trades/save_quotes
\* and are written 0 here.
TradeRecords ==
    {[sip_timestamp |-> ts, id |-> i, price |-> p] :
        ts \in {0, 1000, 2000}, i \in {"t1", "t2", NoId}, p \in {1, 2}}

QuoteRecords ==
    {[sip_timestamp |-> ts, sequence_number |-> s, bid_price |-> p] :
        ts \in {0, 1000, 2000}, s \in {7, 8, None}, p \in {1, 2}}

\* _ns_to_datetime: nanoseconds to a datetime, which has microsecond
\* resolution; datetime.fromtimestamp rounds half to even.  The value is
\* written as a number of microseconds.  (The float division by 1e9 is exact
\* enough at this scale.)
_ns_to_datetime(ns_timestamp) ==
    LET q == ns_timestamp \div 1000
        r == ns_timestamp % 1000
    IN  IF r > 500 \/ (r = 500 /\ q % 2 = 1) THEN q + 1 ELSE q

\* The records save_trades builds from a batch: items without sip_timestamp
\* are skipped.
trade_records(ticker, trades_data) ==
    LET kept == SelectSeq(trades_data, LAMBDA t : t.sip_timestamp # 0)
    IN  [i \in 1 .. Len(kept) |->
            [time |-> _ns_to_datetime(kept[i].sip_timestamp),
             ticker |-> ticker,
             price |-> kept[i].price,
             massive_trade_id |-> str(kept[i].id)]]

quote_records(ticker, quotes_data) ==
    LET kept == SelectSeq(quotes_data, LAMBDA q : q.sip_timestamp # 0)
    IN  [i \in 1 .. Len(kept) |->
            [time |-> _ns_to_datetime(kept[i].sip_timestamp),
             ticker |-> ticker,
             bid_price |-> kept[i].bid_price,
             sequence_number |-> kept[i].sequence_number]]

\* uq_trades_unique_trade (time, ticker, massive_trade_id; the id is never
\* NULL, str() always gives a text) and uq_quotes_unique_quote (time,
\* ticker, sequence_number).  A PostgreSQL unique constraint treats NULLs as
\* distinct, so a quote whose sequence_number is NULL conflicts with no row.
conflicts(constraint, a, b) ==
    IF constraint = "uq_trades_unique_trade"
    THEN a.time = b.time /\ a.ticker = b.ticker
            /\ a.massive_trade_id = b.massive_trade_id
    ELSE a.time = b.time /\ a.ticker = b.ticker
            /\ a.sequence_number # None
            /\ a.sequence_number = b.sequence_number

\* INSERT ... ON CONFLICT ... DO UPDATE: a record that conflicts with a row
\* takes the place of that row.
RECURSIVE on_conflict_do_update(_, _, _)
on_conflict_do_update(table, records, constraint) ==
    IF records = <<>>
    THEN table
    ELSE LET r == Head(records)
             t == IF \E i \in 1 .. Len(table) :
                        conflicts(constraint, r, table[i])
                  THEN [i \in 1 .. Len(table) |->
                           IF conflicts(constraint, r, table[i])
                           THEN r
                           ELSE table[i]]
                  ELSE Append(table, r)
         IN  on_conflict_do_update(t, Tail(records), constraint)

\* INSERT ... ON CONFLICT ON CONSTRAINT c DO NOTHING: the records are taken
\* in order, and one is appended unless it conflicts with a row of the table
\* or with a record of the same statement already appended.
RECURSIVE on_conflict_do_nothing(_, _, _)
on_conflict_do_nothing(table, records, constraint) ==
    IF records = <<>>
    THEN table
    ELSE LET r == Head(records)
             t == IF \E i \in 1 .. Len(table) :
                        conflicts(constraint, r, table[i])
                  THEN table
                  ELSE Append(table, r)
         IN  on_conflict_do_nothing(t, Tail(records), constraint)

\* save_trades / save_quotes when the statement and the commit succeed: the
\* table afterwards.  An empty batch, or one with no record left after the
\* mapping, executes nothing.
save_trades(table, ticker, trades_data) ==
    on_conflict_do_nothing(table, trade_records(ticker, trades_data),
                           "uq_trades_unique_trade")

save_quotes(table, ticker, quotes_data) ==
    on_conflict_do_nothing(table, quote_records(ticker, quotes_data),
                           "uq_quotes_unique_quote")

\* Whether a save reaches the database at all.
executes_statement(data) ==
    \E i \in 1 .. Len(data) : data[i].sip_timestamp # 0

-----------------------------------------------------------------------------
(* The vendor's feeds and the failures of the environment *)

\* Pages of one feed, and records of one page.
MaxPages == 3
MaxPageItems == 2

\* The cap of collect_ticker on one buffer (2000 records in the code, with
\* pages of at most 1000), scaled to the pages of the model.
BufferCap == 2

\* Failures the environment injects in one behaviour.
MaxFaults == 3

Min(a, b) == IF a <= b THEN a ELSE b

RECURSIVE Sum(_)
Sum(s) == IF s = <<>> THEN 0 ELSE Head(s) + Sum(Tail(s))

RECURSIVE Flatten(_)
Flatten(pages) ==
    IF pages = <<>> THEN <<>> ELSE Head(pages) \o Flatten(Tail(pages))

\* The newest records of a day, newest first, all with different keys.
TradeTape ==
    [i \in 1 .. MaxPages * MaxPageItems |->
        [sip_timestamp |-> 1000 * (MaxPages * MaxPageItems + 1 - i),
         id |-> "t1", price |-> 1]]

QuoteTape ==
    [i \in 1 .. MaxPages * MaxPageItems |->
        [sip_timestamp |-> 1000 * (MaxPages * MaxPageItems + 1 - i),
         sequence_number |-> 7, bid_price |-> 1]]

\* The ways a server may cut a tape into pages: the sizes of the pages, an
\* empty page included.  Every page but the last carries a next_url.
PageSizes == UNION {[1 .. n -> 0 .. MaxPageItems] : n \in 1 .. MaxPages}

Paged(tape, sizes) ==
    [k \in 1 .. Len(sizes) |->
        SubSeq(tape, Sum(SubSeq(sizes, 1, k - 1)) + 1,
                     Sum(SubSeq(sizes, 1, k)))]

TapeFeeds(tape) == {Paged(tape, sizes) : sizes \in PageSizes}

\* Feeds whose records share keys, lack fields or differ below a
\* microsecond.
Trade(ts, i, p) == [sip_timestamp |-> ts, id |-> i, price |-> p]

Quote(ts, s, p) == [sip_timestamp |-> ts, sequence_number |-> s, bid_price |-> p]

KeyedTradeFeeds ==
    {<< <<Trade(1000, "t1", 1)>> >>,
     << <<Trade(1000, "t1", 1), Trade(1000, "t1", 2)>> >>,
     << <<Trade(2000, "t2", 1)>>, <<Trade(0, "t1", 1), Trade(1000, NoId, 1)>> >>,
     << <<Trade(1400, "t1", 2)>>, <<Trade(1000, "t1", 1)>> >>}

KeyedQuoteFeeds ==
    {<< <<>> >>,
     << <<Quote(1000, 7, 1)>> >>,
     << <<Quote(1000, 7, 2), Quote(1000, 7, 1)>> >>,
     << <<Quote(1000, None, 1)>>, <<Quote(0, 8, 1)>> >>}

\* Every ticker is served the same pages of a resource.
Vendor(trade_feed, quote_feed) ==
    [r \in Resources |->
        [t \in Symbols |->
            IF r = "trades" THEN trade_feed ELSE quote_feed]]

\* Records the vendor reports later in the day, one more page in front:
\* new ticks, and first a record it reported before, with another price.
NewPage(r) ==
    [i \in 1 .. MaxPageItems |->
        IF r = "trades"
        THEN IF i = 1
             THEN Trade(1000, "t1", 3)
             ELSE Trade(9000 - 1000 * i, "t2", 1)
        ELSE IF i = 1
             THEN Quote(1000, 7, 3)
             ELSE Quote(9000 - 1000 * i, 8, 1)]

NoError == "none"

\* The exceptions _get retries on, and one it does not (response.json()).
RetriedErrors == {"NetworkError", "TimeoutException", "HTTPStatusError"}

OtherErrors == {"JSONDecodeError"}

\* No cycle has run: the state of the cycle's variables outside run_cycle.
IdleCycle ==
    /\ client = "none"
    /\ ticker_idx = 0
    /\ resource = "none"
    /\ url = 0
    /\ attempt = 0
    /\ http_log = <<>>
    /\ buffer = <<>>
    /\ error = NoError
    /\ collected = <<>>

EmptyStore == trades = <<>> /\ quotes = <<>>

\* No RESTClient has been created.
NoClients == clients = <<>>

-----------------------------------------------------------------------------
(* The clock operations applied once to every input *)

Running == 0 - 1

\* Every calendar with the default schedule; the other schedules with the
\* calendars of at most one row.
ClockInit ==
    /\ hours \in HoursSet
    /\ calendar_cache \in CalendarSet
    /\ hours # MarketHours => Cardinality(DOMAIN calendar_cache) <= 1
    /\ market_calendar = calendar_cache
    /\ now \in SampleInstants(hours)
    /\ pc = "unit"
    /\ stop_event = FALSE
    /\ exit_code = Running
    /\ log = {}
    /\ iterations = 0
    /\ sleep_until = 0
    /\ called = "none"
    /\ phase = "none"
    /\ run = FALSE
    /\ wait_time = 0
    /\ tickers = <<"AAPL">>
    /\ vendor = Vendor(<< <<>> >>, << <<>> >>)
    /\ faults = 0
    /\ EmptyStore
    /\ NoClients
    /\ IdleCycle

CallGetMarketPhase ==
    /\ pc = "unit" /\ called = "none"
    /\ called' = "get_market_phase"
    /\ phase' = get_market_phase(hours, calendar_cache, now)
    /\ UNCHANGED <<run, wait_time>>
    /\ UNCHANGED clockVars
    /\ UNCHANGED driverVars
    /\ UNCHANGED worldVars

\* A single call with the clock frozen: both reads return now.  phase is
\* the phase should_run() saw (in is_market_open(), and again at line 44).
CallShouldRun ==
    /\ pc = "unit" /\ called = "none"
    /\ called' = "should_run"
    /\ run' = should_run(hours, calendar_cache, now, now)
    /\ phase' = get_market_phase(hours, calendar_cache, now)
    /\ UNCHANGED wait_time
    /\ UNCHANGED clockVars
    /\ UNCHANGED driverVars
    /\ UNCHANGED worldVars

CallTimeUntilNextOpen ==
    /\ pc = "unit" /\ called = "none"
    /\ called' = "time_until_next_open"
    /\ wait_time' = time_until_next_open(hours, calendar_cache, now)
    /\ UNCHANGED <<phase, run>>
    /\ UNCHANGED clockVars
    /\ UNCHANGED driverVars
    /\ UNCHANGED worldVars

ClockNext ==
    \/ CallGetMarketPhase
    \/ CallShouldRun
    \/ CallTimeUntilNextOpen

ClockSpec == ClockInit /\ [][ClockNext]_vars

-----------------------------------------------------------------------------
(* The pipeline process: pipeline.main and DataCollector.run_forever *)

\* Main-loop iterations a behaviour of the model starts.
MaxIterations == 3

\* Seconds the clock may advance between two reads in one iteration.
ClockSkew == {0, 1}

\* Seconds a collecting cycle takes.
CycleSeconds == {2, 45}

\* Instants the process is started at.
StartInstants ==
    {combine(d, t) : d \in {0, 1, 2},
                     t \in {HM(3, 0), HM(4, 0) - 1, HM(10, 0), HM(20, 0) - 1,
                            HM(20, 7), HM(20, 15) - 1, HM(21, 0)}}

\* Calendar tables the process is started with.
StartCalendars ==
    UNION {[S -> Entries] : S \in {T \in SUBSET Dates : Cardinality(T) <= 1}}

EmptyCache == [d \in {} |-> [status |-> "open", close_time |-> NoTime]]

\* The process as pipeline.main finds it, with nothing stored yet.
ProcessStart ==
    /\ pc = "main"
    /\ stop_event = FALSE
    /\ exit_code = Running
    /\ log = {"Starting Bronco Trade Agents Data Pipeline..."}
    /\ iterations = 0
    /\ sleep_until = 0
    /\ called = "none"
    /\ phase = "none"
    /\ run = FALSE
    /\ wait_time = 0
    /\ EmptyStore
    /\ NoClients
    /\ IdleCycle

Init ==
    /\ hours = MarketHours
    /\ market_calendar \in StartCalendars
    /\ calendar_cache = EmptyCache
    /\ now \in StartInstants
    /\ ProcessStart
    /\ tickers = <<"AAPL">>
    /\ vendor = Vendor(<< <<Trade(1000, "t1", 1)>> >>, << <<>> >>)
    /\ faults = 0

\* signal_handler, registered for SIGINT and SIGTERM before anything else
\* runs.  It returns normally, so the interrupted call (a sleep included)
\* resumes; no KeyboardInterrupt is raised once it replaces the default
\* SIGINT handler.
signal_handler ==
    /\ pc \notin {"unit", "exited"}
    /\ stop_event' = TRUE
    /\ log' = log \cup {"Received signal, stopping pipeline..."}
    /\ UNCHANGED <<pc, exit_code, iterations, sleep_until>>
    /\ UNCHANGED clockVars
    /\ UNCHANGED resultVars
    /\ UNCHANGED worldVars

\* main: init_db() succeeds and the collector is built.
InitDb ==
    /\ pc = "main"
    /\ pc' = "run_forever"
    /\ UNCHANGED <<stop_event, exit_code, log, iterations, sleep_until>>
    /\ UNCHANGED clockVars
    /\ UNCHANGED resultVars
    /\ UNCHANGED worldVars

\* main: an exception of init_db() or of run_forever() outside its loop.
Crash(logged) ==
    /\ log' = log \cup logged \cup {"Pipeline crashed"}
    /\ exit_code' = 1
    /\ pc' = "exited"

InitDbFails ==
    /\ pc = "main"
    /\ Crash({})
    /\ UNCHANGED <<stop_event, iterations, sleep_until>>
    /\ UNCHANGED clockVars
    /\ UNCHANGED resultVars
    /\ UNCHANGED worldVars

\* date(today.year + 1, 1, 1): the dates of the model lie in 1970.
load_end(d) == 52 * 7 + 1

\* The rows load_calendar_cache() reads with its default range.
loaded_rows(table, d) ==
    {r \in DOMAIN table : d <= r /\ r <= load_end(d)}

load_calendar_cache(cache, table, d) ==
    [r \in (DOMAIN cache) \cup loaded_rows(table, d) |->
        IF r \in loaded_rows(table, d) THEN table[r] ELSE cache[r]]

\* run_forever: the preload in its session_scope(); the query succeeds.
PreloadCalendar ==
    /\ pc = "run_forever"
    /\ calendar_cache' = load_calendar_cache(calendar_cache, market_calendar,
                                             date_of(now))
    /\ log' = log \cup {"Data Collector Service Started.",
                        "Loaded calendar entries into cache."}
    /\ pc' = "loop"
    /\ UNCHANGED <<now, hours, market_calendar>>
    /\ UNCHANGED <<stop_event, exit_code, iterations, sleep_until>>
    /\ UNCHANGED resultVars
    /\ UNCHANGED worldVars

\* The query raises: load_calendar_cache() logs the error and returns.
PreloadCalendarFails ==
    /\ pc = "run_forever"
    /\ log' = log \cup {"Data Collector Service Started.",
                        "Failed to load market calendar"}
    /\ pc' = "loop"
    /\ UNCHANGED clockVars
    /\ UNCHANGED <<stop_event, exit_code, iterations, sleep_until>>
    /\ UNCHANGED resultVars
    /\ UNCHANGED worldVars

\* session_scope() itself raises: no session is to be had, or the commit
\* after the block fails, as it can after a query that failed inside the
\* block (load_calendar_cache has caught and logged that failure, and has
\* not rolled back).  Nothing in run_forever catches it there, main does.
PreloadSessionFails ==
    /\ pc = "run_forever"
    /\ \E logged \in {{}, {"Failed to load market calendar"}} :
          Crash({"Data Collector Service Started."} \cup logged)
    /\ UNCHANGED <<stop_event, iterations, sleep_until>>
    /\ UNCHANGED clockVars
    /\ UNCHANGED resultVars
    /\ UNCHANGED worldVars

\* A closed branch that sleeps until the next open, however far it is.
closed_sleep_uncapped(sleep_sec) ==
    IF sleep_sec > 1 THEN sleep_sec ELSE 1

\* A closed branch that sleeps half an hour at most.
closed_sleep_half_hour(sleep_sec) ==
    IF sleep_sec > 1800
    THEN 1800
    ELSE IF sleep_sec > 1 THEN sleep_sec ELSE 1

\* The sleep of the closed branch.
closed_sleep_seconds(sleep_sec) ==
    IF sleep_sec > 3600
    THEN 3600
    ELSE IF sleep_sec > 1 THEN sleep_sec ELSE 1

error_sleep_seconds == 10

\* One iteration of the loop finds should_run() true and calls run_cycle().
LoopRun ==
    /\ pc = "loop"
    /\ iterations < MaxIterations
    /\ \E d \in ClockSkew :
          /\ should_run(hours, calendar_cache, now, now + d)
          /\ now' = now + d
    /\ run' = TRUE
    /\ iterations' = iterations + 1
    /\ pc' = "run_cycle"
    /\ UNCHANGED <<hours, market_calendar, calendar_cache>>
    /\ UNCHANGED <<stop_event, exit_code, log, sleep_until>>
    /\ UNCHANGED <<called, phase, wait_time>>
    /\ UNCHANGED worldVars

\* One iteration finds should_run() false and sleeps towards the next open.
LoopClosed ==
    /\ pc = "loop"
    /\ iterations < MaxIterations
    /\ \E d \in ClockSkew :
          /\ ~should_run(hours, calendar_cache, now, now + d)
          /\ now' = now + d
          /\ wait_time' = time_until_next_open(hours, calendar_cache, now + d)
    /\ run' = FALSE
    /\ iterations' = iterations + 1
    /\ log' = log \cup {"Market closed. Sleeping until next open..."}
    /\ sleep_until' = now' + closed_sleep_seconds(wait_time')
    /\ pc' = "sleeping"
    /\ UNCHANGED <<hours, market_calendar, calendar_cache>>
    /\ UNCHANGED <<stop_event, exit_code>>
    /\ UNCHANGED <<called, phase>>
    /\ UNCHANGED worldVars

\* should_run() or time_until_next_open() raises: the handler of the loop
\* logs the error and sleeps 10 s.
LoopRaises ==
    /\ pc = "loop"
    /\ iterations < MaxIterations
    /\ iterations' = iterations + 1
    /\ log' = log \cup {"Unexpected error in main loop"}
    /\ sleep_until' = now + error_sleep_seconds
    /\ pc' = "sleeping"
    /\ UNCHANGED clockVars
    /\ UNCHANGED <<stop_event, exit_code>>
    /\ UNCHANGED resultVars
    /\ UNCHANGED worldVars

\* run_cycle() reads the clock again and finds should_run() false.
RunCycleSkips ==
    /\ pc = "run_cycle"
    /\ \E d \in ClockSkew :
          /\ ~should_run(hours, calendar_cache, now + d, now + d)
          /\ now' = now + d
    /\ log' = log \cup {"Market is closed. Skipping cycle."}
    /\ sleep_until' = now' + collect_interval_seconds
    /\ pc' = "sleeping"
    /\ UNCHANGED <<hours, market_calendar, calendar_cache>>
    /\ UNCHANGED <<stop_event, exit_code, iterations>>
    /\ UNCHANGED resultVars
    /\ UNCHANGED worldVars

\* A loop without a handler: the exception of run_cycle() reaches main.
RunCycleRaisesUncaught ==
    /\ pc = "run_cycle"
    /\ Crash({})
    /\ UNCHANGED <<stop_event, iterations, sleep_until>>
    /\ UNCHANGED clockVars
    /\ UNCHANGED resultVars
    /\ UNCHANGED worldVars

\* run_cycle() raises (the client or a session cannot be set up): the loop
\* logs the error and sleeps 10 s.
RunCycleRaises ==
    /\ pc = "run_cycle"
    /\ log' = log \cup {"Unexpected error in main loop"}
    /\ sleep_until' = now + error_sleep_seconds
    /\ pc' = "sleeping"
    /\ UNCHANGED clockVars
    /\ UNCHANGED <<stop_event, exit_code, iterations>>
    /\ UNCHANGED resultVars
    /\ UNCHANGED worldVars

\* A decorator that allows one attempt more.
stop_after_four_attempts == 2 + 2

\* stop_after_attempt(3) of the retry decorator of _get.
stop_after_attempt == 3

\* The ticker collect_ticker is called with, and the pages it is served.
ticker == tickers[ticker_idx]

feed == vendor[resource][ticker]

\* A _paginate that sends the caller's params with every request.
current_params_kept(u) == "params"

\* _paginate's current_params: the caller's params on the first request,
\* None once a next_url is followed.
current_params(u) == IF u = 1 THEN "params" ELSE "None"

\* The request _get sends, with what came of it.
Request(status) ==
    [url |-> url, params |-> current_params(url), status |-> status]

\* list_trades / list_quotes is called: nothing is requested yet, the
\* generator runs when the loop of collect_ticker asks for the first item.
StartFetch(r) ==
    /\ resource' = r
    /\ url' = 1
    /\ attempt' = 0
    /\ http_log' = <<>>
    /\ buffer' = <<>>

\* A collect_ticker whose exception leaves the loop over the tickers.
CollectTickerAborts(e, logged) ==
    /\ error' = e
    /\ collected' = Append(collected, [ticker |-> ticker, error |-> e,
                                       client |-> Len(clients)])
    /\ log' = log \cup logged
    /\ pc' = IF e = NoError THEN "session_exit" ELSE "client_exit"

\* collect_ticker returns, with the exception it caught and logged if any.
CollectTickerReturns(e, logged) ==
    /\ error' = e
    /\ collected' = Append(collected, [ticker |-> ticker, error |-> e,
                                       client |-> Len(clients)])
    /\ log' = log \cup logged
    /\ pc' = "session_exit"

\* run_cycle() finds should_run() true, opens a RESTClient and enters
\* session_scope() and collect_ticker for the first ticker.
RunCycleStarts ==
    /\ pc = "run_cycle"
    /\ \E d \in ClockSkew :
          /\ should_run(hours, calendar_cache, now + d, now + d)
          /\ now' = now + d
    /\ log' = log \cup {"Starting collection cycle"}
    /\ client' = "open"
    /\ clients' = Append(clients, "open")
    /\ ticker_idx' = 1
    /\ error' = NoError
    /\ collected' = <<>>
    /\ StartFetch("trades")
    /\ pc' = "fetch"
    /\ UNCHANGED <<hours, market_calendar, calendar_cache>>
    /\ UNCHANGED <<stop_event, exit_code, iterations, sleep_until>>
    /\ UNCHANGED resultVars
    /\ UNCHANGED <<tickers, vendor, faults, trades, quotes>>

\* A loop that takes every record of a page before it looks at the cap.
taken_whole_page(results) == results

\* What the loop of collect_ticker appends from one page before it breaks
\* at the cap.
taken(results) == SubSeq(results, 1, Min(Len(results), BufferCap - Len(buffer)))

\* A client whose three attempts are counted for the whole pagination: a
\* success does not start a new count.
GetSucceeds_one_budget ==
    /\ pc = "fetch"
    /\ LET results == feed[url]
           next_url == url < Len(feed)
       IN  /\ http_log' = Append(http_log, Request("ok"))
           /\ buffer' = buffer \o taken(results)
           /\ IF Len(buffer') >= BufferCap \/ ~next_url
              THEN pc' = "save" /\ UNCHANGED url
              ELSE pc' = "fetch" /\ url' = url + 1
    /\ UNCHANGED attempt
    /\ UNCHANGED clockVars
    /\ UNCHANGED <<stop_event, exit_code, log, iterations, sleep_until>>
    /\ UNCHANGED resultVars
    /\ UNCHANGED <<tickers, vendor, faults, trades, quotes>>
    /\ UNCHANGED <<client, clients, ticker_idx, resource, error, collected>>

\* An attempt of _get succeeds: _paginate yields the results of the page one
\* by one and collect_ticker appends them, until the cap is reached (the
\* generator is then dropped where it stands), the page has no next_url
\* (the generator ends) or the next page has to be requested.
GetSucceeds ==
    /\ pc = "fetch"
    /\ LET results == feed[url]
           next_url == url < Len(feed)
       IN  /\ http_log' = Append(http_log, Request("ok"))
           /\ buffer' = buffer \o taken(results)
           /\ IF Len(buffer') >= BufferCap \/ ~next_url
              THEN pc' = "save" /\ UNCHANGED url
              ELSE pc' = "fetch" /\ url' = url + 1
    /\ attempt' = 0
    /\ UNCHANGED clockVars
    /\ UNCHANGED <<stop_event, exit_code, log, iterations, sleep_until>>
    /\ UNCHANGED resultVars
    /\ UNCHANGED <<tickers, vendor, faults, trades, quotes>>
    /\ UNCHANGED <<client, clients, ticker_idx, resource, error, collected>>

\* An attempt fails with an exception the decorator retries on, and attempts
\* are left: _get waits and sends the same request again.
GetRetries ==
    /\ pc = "fetch"
    /\ faults > 0
    /\ attempt + 1 < stop_after_attempt
    /\ \E e \in RetriedErrors : http_log' = Append(http_log, Request(e))
    /\ attempt' = attempt + 1
    /\ faults' = faults - 1
    /\ UNCHANGED clockVars
    /\ UNCHANGED driverVars
    /\ UNCHANGED resultVars
    /\ UNCHANGED <<tickers, vendor, trades, quotes>>
    /\ UNCHANGED <<client, clients, ticker_idx, resource, url, buffer, error,
                   collected>>

\* The last attempt fails, or an attempt fails with an exception the
\* decorator does not retry on: _get raises it (reraise=True), _paginate and
\* the loop of collect_ticker let it through, and collect_ticker catches it.
GetRaises ==
    /\ pc = "fetch"
    /\ faults > 0
    /\ \E e \in RetriedErrors \cup OtherErrors :
          /\ e \in RetriedErrors => attempt + 1 = stop_after_attempt
          /\ http_log' = Append(http_log, Request(e))
          /\ CollectTickerReturns(e, {"Error collecting"})
    /\ attempt' = attempt + 1
    /\ faults' = faults - 1
    /\ UNCHANGED clockVars
    /\ UNCHANGED <<stop_event, exit_code, iterations, sleep_until>>
    /\ UNCHANGED resultVars
    /\ UNCHANGED <<tickers, vendor, trades, quotes>>
    /\ UNCHANGED <<client, clients, ticker_idx, resource, url, buffer>>

\* After the save of the trades collect_ticker goes on to the quotes; after
\* that of the quotes it returns.
AfterSave ==
    IF resource = "trades"
    THEN /\ StartFetch("quotes")
         /\ pc' = "fetch"
         /\ UNCHANGED <<error, collected, log>>
    ELSE /\ CollectTickerReturns(NoError, {})
         /\ UNCHANGED <<resource, url, attempt, http_log, buffer>>

\* The buffer is saved when it is not empty: save_trades / save_quotes
\* executes the insert and commits the session.
SaveBatch ==
    /\ pc = "save"
    /\ IF resource = "trades"
       THEN /\ trades' = save_trades(trades, ticker, buffer)
            /\ UNCHANGED quotes
       ELSE /\ quotes' = save_quotes(quotes, ticker, buffer)
            /\ UNCHANGED trades
    /\ AfterSave
    /\ UNCHANGED clockVars
    /\ UNCHANGED <<stop_event, exit_code, iterations, sleep_until>>
    /\ UNCHANGED resultVars
    /\ UNCHANGED <<tickers, vendor, faults>>
    /\ UNCHANGED <<client, clients, ticker_idx>>

\* A repository that leaves the rows of the failed statement in the table.
rollback_skipped(before, executed) == executed

\* session.rollback(): the table as it was before the statement, whatever
\* the statement had done to it inside the transaction.
rollback(before, executed) == before

\* The insert or its commit raises: the repository rolls the session back,
\* logs and raises again, and collect_ticker catches it.
SaveFails ==
    /\ pc = "save"
    /\ faults > 0
    /\ executes_statement(buffer)
    /\ faults' = faults - 1
    /\ IF resource = "trades"
       THEN /\ trades' = rollback(trades, save_trades(trades, ticker, buffer))
            /\ UNCHANGED quotes
       ELSE /\ quotes' = rollback(quotes, save_quotes(quotes, ticker, buffer))
            /\ UNCHANGED trades
    /\ CollectTickerReturns("SQLAlchemyError",
                            {"Failed to save", "Error collecting"})
    /\ UNCHANGED clockVars
    /\ UNCHANGED <<stop_event, exit_code, iterations, sleep_until>>
    /\ UNCHANGED resultVars
    /\ UNCHANGED <<tickers, vendor>>
    /\ UNCHANGED <<client, clients, ticker_idx, resource, url, attempt, http_log,
                   buffer>>

\* session_scope() ends for one ticker: its commit finds nothing pending
\* (the repository committed or rolled back already) and the session is
\* closed.  run_cycle goes on with the next ticker, or leaves the loop.
SessionScopeExits ==
    /\ pc = "session_exit"
    /\ IF ticker_idx < Len(tickers)
       THEN /\ ticker_idx' = ticker_idx + 1
            /\ error' = NoError
            /\ StartFetch("trades")
            /\ pc' = "fetch"
       ELSE /\ pc' = "client_exit"
            /\ UNCHANGED <<ticker_idx, error, resource, url, attempt,
                           http_log, buffer>>
    /\ UNCHANGED clockVars
    /\ UNCHANGED <<stop_event, exit_code, log, iterations, sleep_until>>
    /\ UNCHANGED resultVars
    /\ UNCHANGED <<tickers, vendor, faults, trades, quotes>>
    /\ UNCHANGED <<client, clients, collected>>

\* An __exit__ that leaves the connection pool open.
close_skipped(cs) == cs

\* RESTClient.__exit__: close() on the client the with block bound, the
\* last one created.
close(cs) == [cs EXCEPT ![Len(cs)] = "closed"]

\* session_scope() raises inside the with block of the RESTClient (its
\* commit or close fails, or the session of the next ticker cannot be had):
\* __exit__ closes the client on the way out, run_cycle raises, and the
\* handler of the loop logs the error and sleeps 10 s.
SessionScopeRaises ==
    /\ pc = "session_exit"
    /\ faults > 0
    /\ faults' = faults - 1
    /\ client' = "closed"
    /\ clients' = close(clients)
    /\ log' = log \cup {"Unexpected error in main loop"}
    /\ sleep_until' = now + error_sleep_seconds
    /\ pc' = "sleeping"
    /\ UNCHANGED clockVars
    /\ UNCHANGED <<stop_event, exit_code, iterations>>
    /\ UNCHANGED resultVars
    /\ UNCHANGED <<tickers, vendor, trades, quotes>>
    /\ UNCHANGED <<ticker_idx, resource, url, attempt, http_log, buffer,
                   error, collected>>

\* The with block of the RESTClient ends: the client is closed, run_cycle
\* logs the duration and returns, and run_forever sleeps the interval.
RunCycleEnds ==
    /\ pc = "client_exit"
    /\ client' = "closed"
    /\ clients' = close(clients)
    /\ \E c \in CycleSeconds : now' = now + c
    /\ log' = log \cup {"Cycle completed"}
    /\ sleep_until' = now' + collect_interval_seconds
    /\ pc' = "sleeping"
    /\ UNCHANGED <<hours, market_calendar, calendar_cache>>
    /\ UNCHANGED <<stop_event, exit_code, iterations>>
    /\ UNCHANGED resultVars
    /\ UNCHANGED <<tickers, vendor, faults, trades, quotes>>
    /\ UNCHANGED <<ticker_idx, resource, url, attempt, http_log, buffer,
                   error, collected>>

\* The vendor reports more records while the collector sleeps: a page in
\* front of the pages of every feed.
VendorReports ==
    /\ pc = "sleeping"
    /\ \A r \in Resources, t \in Symbols : Len(vendor[r][t]) < MaxPages
    /\ vendor' = [r \in Resources |->
                    [t \in DOMAIN vendor[r] |-> <<NewPage(r)>> \o vendor[r][t]]]
    /\ UNCHANGED clockVars
    /\ UNCHANGED driverVars
    /\ UNCHANGED resultVars
    /\ UNCHANGED <<tickers, faults, trades, quotes>>
    /\ UNCHANGED cycleVars
    /\ UNCHANGED clients

\* time.sleep() returns and the loop starts over, whatever stop_event holds.
SleepReturns ==
    /\ pc = "sleeping"
    /\ now' = sleep_until
    /\ pc' = "loop"
    /\ UNCHANGED <<hours, market_calendar, calendar_cache>>
    /\ UNCHANGED <<stop_event, exit_code, log, iterations, sleep_until>>
    /\ UNCHANGED resultVars
    /\ UNCHANGED worldVars

\* The steps of the main loop of run_forever, run_cycle included.
LoopStep ==
    \/ LoopRun
    \/ LoopClosed
    \/ RunCycleSkips
    \/ RunCycleStarts
    \/ GetSucceeds
    \/ SaveBatch
    \/ SessionScopeExits
    \/ RunCycleEnds
    \/ RunCycleRaises
    \/ LoopRaises
    \/ SleepReturns

\* The failures of the vendor, the network and the database inside a cycle.
FailureStep ==
    \/ GetRetries
    \/ GetRaises
    \/ SaveFails
    \/ SessionScopeRaises

\* The steps of the process itself.  The loop has one way out, the handler
\* of KeyboardInterrupt, which main's own SIGINT handler keeps from ever
\* being raised; so no step leaves the loop, and none logs "Pipeline
\* stopped gracefully." or ends the process with status 0.
ProcessStep ==
    \/ InitDb
    \/ InitDbFails
    \/ PreloadCalendar
    \/ PreloadCalendarFails
    \/ PreloadSessionFails
    \/ LoopStep

Next == ProcessStep \/ signal_handler

Spec == Init /\ [][Next]_vars

\* The process is never suspended for good.
FairSpec == Spec /\ WF_vars(ProcessStep)

\* The main loop after a start-up that found no calendar rows, on a
\* Thursday: before the pre-market, in the regular session, and one second
\* before the grace window ends.
LoopInstants == {combine(0, t) : t \in {HM(3, 0), HM(10, 0), HM(20, 15) - 1}}

LoopStart(started) ==
    /\ hours = MarketHours
    /\ market_calendar = EmptyCache
    /\ calendar_cache = EmptyCache
    /\ now \in LoopInstants
    /\ pc = "loop"
    /\ stop_event = FALSE
    /\ exit_code = Running
    /\ log = {"Starting Bronco Trade Agents Data Pipeline...",
              "Data Collector Service Started.",
              "Loaded calendar entries into cache."}
    /\ iterations = started
    /\ sleep_until = 0
    /\ called = "none"
    /\ phase = "none"
    /\ run = FALSE
    /\ wait_time = 0
    /\ faults = MaxFaults
    /\ EmptyStore
    /\ NoClients
    /\ IdleCycle

\* The steps of the loop and of the vendor.
LoopNext == LoopStep \/ FailureStep \/ VendorReports

\* One iteration of two tickers against every way of paging the vendor's
\* trades.
FetchInit ==
    /\ LoopStart(MaxIterations - 1)
    /\ tickers = <<"AAPL", "MSFT">>
    /\ vendor \in {Vendor(tf, << <<Quote(1000, 7, 1)>> >>) :
                      tf \in TapeFeeds(TradeTape)}

FetchSpec == FetchInit /\ [][LoopNext]_vars

\* Two iterations of one ticker against feeds whose records share keys or
\* lack fields.
StoreInit ==
    /\ LoopStart(MaxIterations - 2)
    /\ tickers = <<"AAPL">>
    /\ vendor \in {Vendor(tf, qf) : tf \in KeyedTradeFeeds,
                                     qf \in KeyedQuoteFeeds}

StoreSpec == StoreInit /\ [][LoopNext]_vars

\* Two iterations of two tickers against a vendor with one trade and one
\* quote for each.
ClientInit ==
    /\ LoopStart(MaxIterations - 2)
    /\ tickers = <<"AAPL", "MSFT">>
    /\ vendor = Vendor(<< <<Trade(1000, "t1", 1)>> >>,
                       << <<Quote(1000, 7, 1)>> >>)

ClientSpec == ClientInit /\ [][LoopNext]_vars

-----------------------------------------------------------------------------
(* Claims about the clock operations, checked under ClockSpec *)

today == date_of(now)

time_now == time_of(now)

IsWeekday(d) == weekday(d) \in 0 .. 4

HasStatus(d, st) == d \in DOMAIN calendar_cache /\ calendar_cache[d].status = st

\* The calendar without the row of date d.
WithoutEntry(cache, d) == [x \in (DOMAIN cache) \ {d} |-> cache[x]]

InInterval(lo, t, hi) == lo <= t /\ t < hi

\* C2: on a date whose calendar row has status closed, should_run() is
\* false at every time of day, the grace window included.
C2_ClosedDateNeverRuns ==
    (called = "should_run" /\ HasStatus(today, "closed")) => run = FALSE

\* C3: now + time_until_next_open() is the pre_market_open instant of a date
\* that is neither a Saturday/Sunday nor calendar-closed, an instant whose
\* phase is not Closed.
C3_NextOpenIsOpen ==
    called = "time_until_next_open" =>
        LET target == now + wait_time
        IN  /\ time_of(target) = hours.pre_market_open
            /\ IsWeekday(date_of(target))
            /\ ~HasStatus(date_of(target), "closed")
            /\ get_market_phase(hours, calendar_cache, target) # CLOSED

\* The first date strictly after d that is neither a Saturday/Sunday nor a
\* date with a closed row (rows exist for dates below NDays only).
FirstOpenDateAfter(d) ==
    LET Open(e) == IsWeekday(e) /\ ~HasStatus(e, "closed")
    IN  CHOOSE e \in (d + 1) .. (d + NDays + 3) :
            Open(e) /\ \A f \in (d + 1) .. (e - 1) : ~Open(f)

Friday == CHOOSE d \in Dates : weekday(d) = 4
Monday == Friday + 3
Tuesday == Friday + 4

\* C4: at or after today's pre_market_open, time_until_next_open() is
\* pre_market_open of d* minus now, d* the first later date that is neither
\* a weekend day nor closed (an early_close date is accepted); from Friday
\* 21:00 with Monday closed, d* is Tuesday.
C4_NextOpenSkipsClosedDays ==
    (called = "time_until_next_open"
     /\ now >= combine(today, hours.pre_market_open)) =>
        /\ wait_time
             = combine(FirstOpenDateAfter(today), hours.pre_market_open) - now
        /\ (now = combine(Friday, HM(21, 0))
            /\ HasStatus(Monday, "closed")
            /\ ~HasStatus(Tuesday, "closed")) =>
               now + wait_time = combine(Tuesday, hours.pre_market_open)

\* Friday 21:00, Monday closed, Tuesday an early-close day: Tuesday it is.
C4_Witness ==
    /\ called = "time_until_next_open"
    /\ now = combine(Friday, HM(21, 0))
    /\ HasStatus(Monday, "closed")
    /\ HasStatus(Tuesday, "early_close")
    /\ now + wait_time = combine(Tuesday, hours.pre_market_open)

\* C5: on a weekday without a calendar row, for a schedule satisfying the
\* PhaseSchedule invariant, get_market_phase() is PreMarket, Regular and
\* AfterHours exactly on [preOpen, regOpen), [regOpen, regClose) and
\* [afOpen, afClose), and Closed exactly outside [preOpen, afClose); at most
\* one of the three intervals holds a time.
C5_PhaseIntervals ==
    (called = "get_market_phase"
     /\ ScheduleInvariant(hours)
     /\ IsWeekday(today)
     /\ today \notin DOMAIN calendar_cache) =>
        LET t == time_now
            inPre == InInterval(hours.pre_market_open, t, hours.regular_open)
            inReg == InInterval(hours.regular_open, t, hours.regular_close)
            inAft == InInterval(hours.after_hours_open, t,
                                hours.after_hours_close)
        IN  /\ phase \in MarketPhase
            /\ phase = PRE_MARKET <=> inPre
            /\ phase = REGULAR <=> inReg
            /\ phase = AFTER_HOURS <=> inAft
            /\ phase = CLOSED
                 <=> ~InInterval(hours.pre_market_open, t,
                                 hours.after_hours_close)
            /\ ~(inPre /\ inReg) /\ ~(inReg /\ inAft) /\ ~(inPre /\ inAft)
            /\ (inPre \/ inReg \/ inAft)
                 <=> InInterval(hours.pre_market_open, t,
                                hours.after_hours_close)

\* The last second of an after-hours session that ends at 23:50.
C5_Witness ==
    /\ called = "get_market_phase"
    /\ IsWeekday(today)
    /\ today \notin DOMAIN calendar_cache
    /\ hours = LateHours
    /\ time_now = hours.after_hours_close - 1
    /\ phase = AFTER_HOURS

\* C6: a row with status closed makes get_market_phase() Closed at every
\* time of the date, whatever the weekday and the schedule.
C6_ClosedOverride ==
    (called = "get_market_phase" /\ HasStatus(today, "closed")) =>
        phase = CLOSED

\* A closed weekday during regular hours.
C6_Witness ==
    /\ called = "get_market_phase"
    /\ HasStatus(today, "closed")
    /\ IsWeekday(today)
    /\ InInterval(hours.regular_open, time_now, hours.regular_close)
    /\ phase = CLOSED

\* C7: on a date with an early_close row whose close_time c lies strictly
\* between regOpen and afClose, get_market_phase() is PreMarket exactly on
\* [preOpen, regOpen), Regular exactly on [regOpen, c), Closed otherwise and
\* never AfterHours, whatever the weekday.
C7_EarlyClose ==
    (called = "get_market_phase"
     /\ HasStatus(today, "early_close")
     /\ calendar_cache[today].close_time # NoTime
     /\ hours.regular_open < calendar_cache[today].close_time
     /\ calendar_cache[today].close_time < hours.after_hours_close) =>
        LET t == time_now
            c == calendar_cache[today].close_time
            inPre == InInterval(hours.pre_market_open, t, hours.regular_open)
            inReg == InInterval(hours.regular_open, t, c)
        IN  /\ phase = PRE_MARKET <=> inPre
            /\ phase = REGULAR <=> inReg
            /\ phase = CLOSED <=> (~inPre /\ ~inReg)
            /\ phase # AFTER_HOURS

\* A weekday closing early at 17:00, at 17:00: Closed, not AfterHours.
C7_Witness ==
    /\ called = "get_market_phase"
    /\ HasStatus(today, "early_close")
    /\ calendar_cache[today].close_time = HM(17, 0)
    /\ hours = MarketHours
    /\ time_now = HM(17, 0)
    /\ IsWeekday(today)
    /\ phase = CLOSED

\* C8 as claimed: with an early_close row without close_time,
\* get_market_phase() equals its result for the same instant with no row.
C8_FallsThroughToRegularRules ==
    (called = "get_market_phase"
     /\ HasStatus(today, "early_close")
     /\ calendar_cache[today].close_time = NoTime) =>
        phase = get_market_phase(hours, WithoutEntry(calendar_cache, today),
                                 now)

\* C8 as amended: with an early_close row without close_time,
\* get_market_phase() takes regular_close for the close time, on every day
\* of the week: PreMarket on [preOpen, regOpen), Regular on [regOpen,
\* regClose), Closed otherwise.  It differs from the result with no row on
\* Saturday/Sunday (not Closed all day) and on [afOpen, afClose) of a
\* weekday (Closed, not AfterHours).
C8_EarlyCloseWithoutTime ==
    (called = "get_market_phase"
     /\ HasStatus(today, "early_close")
     /\ calendar_cache[today].close_time = NoTime) =>
        LET t == time_now
            inPre == InInterval(hours.pre_market_open, t, hours.regular_open)
            inReg == InInterval(hours.regular_open, t, hours.regular_close)
            noRow == get_market_phase(hours,
                                      WithoutEntry(calendar_cache, today), now)
        IN  /\ phase = (IF inPre THEN PRE_MARKET
                        ELSE IF inReg THEN REGULAR ELSE CLOSED)
            /\ (IsWeekday(today) /\ noRow # AFTER_HOURS) => phase = noRow
            /\ (IsWeekday(today) /\ noRow = AFTER_HOURS) => phase = CLOSED

\* A Saturday or Sunday with such a row, during regular hours.
C8_Witness ==
    /\ called = "get_market_phase"
    /\ HasStatus(today, "early_close")
    /\ calendar_cache[today].close_time = NoTime
    /\ ~IsWeekday(today)
    /\ phase = REGULAR

\* C9: on a Saturday or Sunday with no row, or a row with status open,
\* get_market_phase() is Closed at every time; a row with status open
\* changes nothing: the result equals the result with no row.
C9_WeekendRule ==
    called = "get_market_phase" =>
        /\ (~IsWeekday(today)
            /\ (today \notin DOMAIN calendar_cache
                \/ HasStatus(today, "open"))) => phase = CLOSED
        /\ HasStatus(today, "open") =>
               phase = get_market_phase(hours,
                                        WithoutEntry(calendar_cache, today),
                                        now)

\* A weekend day with a row of status open, at 10:00.
C9_Witness ==
    /\ called = "get_market_phase"
    /\ ~IsWeekday(today)
    /\ HasStatus(today, "open")
    /\ time_now = HM(10, 0)
    /\ phase = CLOSED

GraceSeconds == GRACE_PERIOD_MINUTES * 60

InGraceWindowOfWeekday ==
    /\ IsWeekday(today)
    /\ ~HasStatus(today, "closed")
    /\ InInterval(hours.after_hours_close, time_now,
                  hours.after_hours_close + GraceSeconds)

AfterGraceWindowOfWeekday ==
    /\ IsWeekday(today)
    /\ ~HasStatus(today, "closed")
    /\ time_now >= hours.after_hours_close + GraceSeconds

\* C10 as claimed: at every weekday instant (no closed row) whose time lies
\* in [afClose, afClose + 15 min), the phase is Closed and should_run() is
\* true; from afClose + 15 min on, the same evening, should_run() is false.
C10_GraceWindow ==
    called = "should_run" =>
        /\ InGraceWindowOfWeekday => (phase = CLOSED /\ run = TRUE)
        /\ AfterGraceWindowOfWeekday => run = FALSE

\* C10 as amended: the same, provided afClose + 15 min falls before
\* midnight (afClose < 23:45, as with the default hours).
C10_GraceWindowBeforeMidnight ==
    (called = "should_run"
     /\ hours.after_hours_close + GraceSeconds < DaySeconds) =>
        /\ InGraceWindowOfWeekday => (phase = CLOSED /\ run = TRUE)
        /\ AfterGraceWindowOfWeekday => run = FALSE

\* A weekday without a row at 20:07 with the default hours.
C10_Witness ==
    /\ called = "should_run"
    /\ hours = MarketHours
    /\ IsWeekday(today)
    /\ today \notin DOMAIN calendar_cache
    /\ time_now = HM(20, 7)
    /\ phase = CLOSED
    /\ run = TRUE

-----------------------------------------------------------------------------
(* Claims about the process, checked under Spec and FairSpec *)

InMainLoop == pc \in {"loop", "run_cycle", "sleeping"}

\* C1: a signal delivered during the main loop sets stop_event; from then
\* on no new cycle is started, the loop eventually exits, and the process
\* then has logged "Pipeline stopped gracefully." and ended with status 0.
C1_GracefulShutdown ==
    /\ [][(InMainLoop /\ signal_handler) => stop_event']_vars
    /\ [][(stop_event /\ pc = "loop") => pc' # "run_cycle"]_vars
    /\ (stop_event /\ InMainLoop) ~>
           (/\ pc = "exited"
            /\ exit_code = 0
            /\ "Pipeline stopped gracefully." \in log)

-----------------------------------------------------------------------------
(* Claims about the REST client, checked under FetchSpec *)

\* The requests of the current resource that asked for page u: the attempts
\* of one _get call.
AttemptsFor(u) == SelectSeq(http_log, LAMBDA r : r.url = u)

\* C11: one _get call makes at most 3 HTTP attempts and stops at the first
\* that succeeds; when every attempt fails with a network error, a timeout
\* or an HTTP error status, it makes exactly 3 and raises the error of the
\* last one.
C11_RetryTermination ==
    /\ \A u \in 1 .. MaxPages :
          LET calls == AttemptsFor(u)
          IN  /\ Len(calls) <= 3
              /\ \A i \in 1 .. Len(calls) :
                    calls[i].status = "ok" => i = Len(calls)
    /\ error \in RetriedErrors =>
          LET calls == AttemptsFor(url)
          IN  /\ Len(calls) = 3
              /\ \A i \in 1 .. 3 : calls[i].status \in RetriedErrors
              /\ error = calls[3].status

\* Three attempts of one call fail in three different ways, and what
\* collect_ticker catches is the HTTP status error of the third.
C11_Witness ==
    /\ error = "HTTPStatusError"
    /\ Len(http_log) >= 3
    /\ LET n == Len(http_log)
       IN  /\ http_log[n - 2].status = "NetworkError"
           /\ http_log[n - 1].status = "TimeoutException"
           /\ http_log[n].status = "HTTPStatusError"
           /\ http_log[n - 2].url = url

\* The requests of the current resource that succeeded, in order.
Successful == SelectSeq(http_log, LAMBDA r : r.status = "ok")

\* collect_ticker is consuming the pages of a resource, or has just stopped.
Fetching == pc \in {"fetch", "save"}

\* The generator ran to its end: the loop of collect_ticker did not break.
Exhausted == pc = "save" /\ Len(buffer) < BufferCap

\* C12: _paginate yields the items of the pages in page order, with exactly
\* one successful GET for each page it reads; the caller's params go with
\* the first page's request only; read to its end, it yields every item of
\* every page of the chain and stops at the first page without next_url,
\* following pages whose results are empty but that carry a next_url; a
\* first page with no results and no next_url gives no item after one
\* successful GET.
C12_PaginationYield ==
    Fetching =>
        LET n == Len(Successful)
            items == Flatten(SubSeq(feed, 1, n))
        IN  /\ n <= Len(feed)
            /\ \A i \in 1 .. n : Successful[i].url = i
            /\ \A i \in 1 .. Len(http_log) :
                  http_log[i].params =
                      IF http_log[i].url = 1 THEN "params" ELSE "None"
            /\ buffer = SubSeq(items, 1, Min(Len(items), BufferCap))
            /\ Exhausted => n = Len(feed) /\ buffer = Flatten(feed)
            /\ (pc = "save" /\ feed = << <<>> >>) =>
                  buffer = <<>> /\ n = 1

\* Three pages are read, the first of them empty, and the one record of
\* the chain is in the buffer.
C12_Witness ==
    /\ Exhausted
    /\ Len(feed) = 3
    /\ feed[1] = <<>>
    /\ Len(Successful) = 3
    /\ Len(buffer) = 1

\* The requests of the current resource that failed, as positions of the log.
Failed == {i \in 1 .. Len(http_log) : http_log[i].status # "ok"}

\* The pages _paginate has read.
PagesRead == IF pc = "save" THEN url ELSE url - 1

\* C13: the three attempts are counted for each GET, not for the pagination:
\* a request follows a failed one to the same page and a successful one to
\* the next page, so no earlier page is fetched again and no item is yielded
\* twice; the GETs of a pagination are its pages plus its failed attempts;
\* and a call gives up only on three failures of its own page, whatever
\* failed on the pages before.
C13_RetryBudgetPerGet ==
    /\ Fetching =>
          /\ \A i \in 1 .. Len(http_log) :
                http_log[i].url =
                    IF i = 1 THEN 1
                    ELSE IF http_log[i - 1].status = "ok"
                         THEN http_log[i - 1].url + 1
                         ELSE http_log[i - 1].url
          /\ \A i, j \in 1 .. Len(buffer) : buffer[i] = buffer[j] => i = j
          /\ Len(http_log) = PagesRead + Cardinality(Failed)
    /\ error \in RetriedErrors =>
          \A i \in 1 .. 3 :
              /\ Len(http_log) >= i
              /\ http_log[Len(http_log) + 1 - i].url = url
              /\ http_log[Len(http_log) + 1 - i].status \in RetriedErrors

\* Scenario S5: the first GET is answered 503, its second attempt gives a
\* page of one record with a next_url, and the continuation an empty last
\* page: one record in the buffer after exactly 3 GETs.
C13_Witness ==
    /\ pc = "save"
    /\ Len(feed) = 2 /\ Len(feed[1]) = 1 /\ feed[2] = <<>>
    /\ Len(http_log) = 3
    /\ http_log[1] = [url |-> 1, params |-> "params", status |-> "HTTPStatusError"]
    /\ http_log[2] = [url |-> 1, params |-> "params", status |-> "ok"]
    /\ http_log[3] = [url |-> 2, params |-> "None", status |-> "ok"]
    /\ buffer = feed[1]

-----------------------------------------------------------------------------
(* Claims about the repository and the cycle, checked under StoreSpec *)

\* Two rows have the unique tuple of their table in common.
SameTrade(a, b) ==
    a.time = b.time /\ a.ticker = b.ticker
        /\ a.massive_trade_id = b.massive_trade_id

SameQuote(a, b) ==
    a.time = b.time /\ a.ticker = b.ticker
        /\ a.sequence_number = b.sequence_number

\* C14: saving the batch in hand a second time leaves the rows the first
\* save leaves, and at no time do two rows of trades share (time, ticker,
\* massive_trade_id) or two rows of quotes (time, ticker, sequence_number).
C14_IdempotentWrites ==
    /\ (pc = "save" /\ resource = "trades") =>
          save_trades(save_trades(trades, ticker, buffer), ticker, buffer)
              = save_trades(trades, ticker, buffer)
    /\ (pc = "save" /\ resource = "quotes") =>
          save_quotes(save_quotes(quotes, ticker, buffer), ticker, buffer)
              = save_quotes(quotes, ticker, buffer)
    /\ \A i, j \in 1 .. Len(trades) : SameTrade(trades[i], trades[j]) => i = j
    /\ \A i, j \in 1 .. Len(quotes) : SameQuote(quotes[i], quotes[j]) => i = j

\* C17: no save changes a row that is stored: every row of trades and of
\* quotes keeps its position and all its fields in every step, also when a
\* record with the same unique tuple and other field values is inserted.
C17_FirstWriterWins ==
    [][/\ Len(trades') >= Len(trades)
       /\ \A i \in 1 .. Len(trades) : trades'[i] = trades[i]
       /\ Len(quotes') >= Len(quotes)
       /\ \A i \in 1 .. Len(quotes) : quotes'[i] = quotes[i]]_vars

\* A row of trades is stored with price 1; the vendor has reported its
\* unique tuple again with price 3, and the cycle has saved the batch that
\* begins with that record.
C17_Witness ==
    /\ pc = "fetch" /\ resource = "quotes"
    /\ feed[1] # <<>>
    /\ vendor["trades"][ticker][1][1] = Trade(1000, "t1", 3)
    /\ Len(trades) >= 1
    /\ trades[1] = [time |-> 1, ticker |-> ticker, price |-> 1,
                    massive_trade_id |-> "t1"]
    /\ Len(SelectSeq(trades, LAMBDA row : row.massive_trade_id = "t1")) = 1

\* The first collect_ticker call of a behaviour of StoreSpec: the tables
\* were empty when it began.
FirstCollect == iterations = MaxIterations - 1 /\ ticker_idx = 1

\* C15: the rows collect_ticker inserts for one ticker in one cycle, trades
\* and quotes, are applied together or not at all: when the call returns
\* after a failure, none of them is stored (the tables were empty before).
C15_PerTickerAtomicity ==
    (pc = "session_exit" /\ error # NoError /\ FirstCollect) =>
        trades = <<>> /\ quotes = <<>>

-----------------------------------------------------------------------------
(* Claims about collect_ticker and run_cycle, checked under FetchSpec *)

\* run_cycle is in its loop over the tickers, or has just left it.
InCycle == pc \in {"fetch", "save", "session_exit", "client_exit"}

\* The tickers of the collect_ticker calls that returned, in call order.
CollectedTickers == [i \in 1 .. Len(collected) |-> collected[i].ticker]

\* C16: in a cycle that runs, collect_ticker is called once for every ticker
\* in declared order whatever failed for earlier tickers; an exception of
\* the fetch or of the save of a ticker ends in collect_ticker, which
\* returns to run_cycle, and the main loop logs no error.
C16_FailureContainment ==
    /\ [](InCycle =>
            /\ CollectedTickers = SubSeq(tickers, 1, Len(collected))
            /\ ticker_idx =
                   IF pc \in {"fetch", "save"}
                   THEN Len(collected) + 1
                   ELSE Len(collected)
            /\ pc = "client_exit" => CollectedTickers = tickers)
    /\ [][(error = NoError /\ error' # NoError) =>
            /\ pc' = "session_exit"
            /\ "Unexpected error in main loop" \in log' =>
                   "Unexpected error in main loop" \in log]_vars

\* The fetch of the first ticker failed after its retries, and the second
\* ticker was collected without error.
C16_Witness ==
    /\ pc = "client_exit"
    /\ Len(collected) = 2
    /\ collected[1].error \in RetriedErrors
    /\ collected[2].error = NoError

-----------------------------------------------------------------------------
(* Claims about the cycles of one day, checked under StoreSpec *)

\* The pages of a feed that the vendor served from the start: the feed
\* without the pages reported later.
RECURSIVE Reported(_, _)
Reported(r, pages) ==
    IF pages # <<>> /\ Head(pages) = NewPage(r)
    THEN Reported(r, Tail(pages))
    ELSE pages

\* The records a cycle at the start of the day had to persist: those with a
\* sip_timestamp among the first BufferCap of the feed.
Due(r) ==
    LET all == Flatten(Reported(r, vendor[r][ticker]))
        first == SubSeq(all, 1, Min(Len(all), BufferCap))
    IN  {first[i] : i \in {j \in 1 .. Len(first) : first[j].sip_timestamp # 0}}

TradeStored(t) ==
    \E i \in 1 .. Len(trades) :
        /\ trades[i].time = _ns_to_datetime(t.sip_timestamp)
        /\ trades[i].ticker = ticker
        /\ trades[i].massive_trade_id = str(t.id)

QuoteStored(q) ==
    \E i \in 1 .. Len(quotes) :
        /\ quotes[i].time = _ns_to_datetime(q.sip_timestamp)
        /\ quotes[i].ticker = ticker
        /\ quotes[i].sequence_number = q.sequence_number

\* C18: when an earlier cycle of the day failed for the ticker and a later
\* one collects it without error, every tick the vendor reported by the
\* time of the failed cycle, and that cycle had to persist, is stored.
C18_NoLossAcrossFailures ==
    (pc = "session_exit" /\ error = NoError /\ "Error collecting" \in log) =>
        /\ \A t \in Due("trades") : TradeStored(t)
        /\ \A q \in Due("quotes") : QuoteStored(q)

-----------------------------------------------------------------------------
(* Claims about the process and its cycles, checked under Spec *)

\* C19: a run_cycle call whose clock read finds should_run() false opens no
\* RESTClient, sends no GET and writes no row; and a main-loop iteration
\* that reads the clock at 03:00 of a weekday finds should_run() false,
\* sends no GET and sleeps pre_market_open - 03:00, one hour with the
\* default hours.
C19_ClosedMeansNoTraffic ==
    [][/\ (pc = "run_cycle"
           /\ ~should_run(hours, calendar_cache, now', now')) =>
              /\ client' = client
              /\ http_log' = http_log
              /\ trades' = trades /\ quotes' = quotes
       /\ (pc = "loop" /\ pc' # "loop" /\ ~LoopRaises
           /\ time_of(now') = HM(3, 0) /\ IsWeekday(date_of(now'))) =>
              /\ run' = FALSE
              /\ pc' = "sleeping"
              /\ sleep_until' - now' = hours.pre_market_open - HM(3, 0)
              /\ sleep_until' - now' = 3600
              /\ client' = client
              /\ http_log' = http_log
              /\ trades' = trades /\ quotes' = quotes]_vars

\* The loop found should_run() true one second before the grace window
\* ended and run_cycle found it false: no client was opened, nothing was
\* requested or stored, and the process sleeps the interval.
C19_Witness ==
    /\ pc = "sleeping"
    /\ run = TRUE
    /\ "Market is closed. Skipping cycle." \in log
    /\ ~should_run(hours, calendar_cache, now, now)
    /\ sleep_until = now + collect_interval_seconds
    /\ client = "none"
    /\ http_log = <<>>
    /\ trades = <<>> /\ quotes = <<>>

-----------------------------------------------------------------------------
(* Claims about the cap of collect_ticker, checked under FetchSpec *)

\* The records of the first k pages of the feed.
UpTo(k) == Flatten(SubSeq(feed, 1, k))

\* The fewest pages that hold BufferCap records, or all the pages when the
\* feed holds fewer.
MinPages ==
    LET enough == {k \in 1 .. Len(feed) : Len(UpTo(k)) >= BufferCap}
    IN  IF enough = {}
        THEN Len(feed)
        ELSE CHOOSE k \in enough : \A other \in enough : k <= other

\* C20: a buffer of collect_ticker never holds more than the cap (2000
\* records; BufferCap here); every GET is sent while the buffer of its
\* resource is below the cap, so none follows the record that fills it; and
\* when the fetch of a resource ends, the pages read are the fewest that hold
\* the cap, or all the pages of the feed.
C20_PerTickerCap ==
    /\ [](Fetching =>
            /\ Len(buffer) <= BufferCap
            /\ pc = "save" => Len(Successful) = MinPages)
    /\ [][(http_log' # http_log /\ http_log' # <<>>) =>
            Len(buffer) < BufferCap]_vars

\* The second of three pages fills the buffer with its first record: the
\* rest of that page is not taken and the third page is not requested.
C20_Witness ==
    /\ pc = "save"
    /\ Len(buffer) = BufferCap
    /\ Len(feed) = 3
    /\ feed[3] # <<>>
    /\ Len(UpTo(2)) > BufferCap
    /\ Len(Successful) = 2

-----------------------------------------------------------------------------
(* Claims about the sleeps of the main loop, checked under Spec *)

\* A step in which the driver goes to sleep, and the seconds it sleeps.
FallsAsleep == pc # "sleeping" /\ pc' = "sleeping"

slept == sleep_until - now

\* A step in which an iteration ends in the handler of the loop.
IterationRaises == LoopRaises \/ RunCycleRaises \/ SessionScopeRaises

\* A step in which should_run() returns to the loop.
Decides == pc = "loop" /\ pc' # "loop" /\ ~LoopRaises

\* What the closed branch of every iteration does: it sleeps one hour when
\* d = time_until_next_open() exceeds one hour and max(1 s, d) otherwise,
\* between 1 s and 1 hour in all.
ClosedBranchSleeps ==
    (Decides /\ ~run') =>
        /\ FallsAsleep
        /\ wait_time' = time_until_next_open(hours, calendar_cache, now')
        /\ slept' = (IF wait_time' > 3600
                     THEN 3600
                     ELSE IF wait_time' >= 1 THEN wait_time' ELSE 1)
        /\ 1 <= slept' /\ slept' <= 3600

\* What the run branch does first: it calls run_cycle, once.
RunBranchCalls ==
    /\ (Decides /\ run') => pc' = "run_cycle"
    /\ pc' = "run_cycle" => (pc = "loop" \/ pc = "run_cycle")

\* C21 as claimed: an iteration that finds should_run() true runs one cycle
\* and then sleeps collect_interval_seconds; one that finds it false sleeps
\* 1 hour when d = time_until_next_open() exceeds 1 hour and max(1 s, d)
\* otherwise, so a closed-market sleep lasts between 1 s and 1 hour.
C21_DriverSleepPolicy ==
    [][/\ ClosedBranchSleeps
       /\ RunBranchCalls
       /\ (FallsAsleep /\ run' /\ ~LoopRaises) =>
             slept' = collect_interval_seconds]_vars

\* C21 as amended: the same, but the sleep of the run branch is
\* collect_interval_seconds when run_cycle returns (having collected or
\* skipped); an iteration in which run_cycle raises sleeps 10 s instead, as
\* does every iteration that raises.
C21_DriverSleepPolicyUnlessRaised ==
    [][/\ ClosedBranchSleeps
       /\ RunBranchCalls
       /\ (FallsAsleep /\ run' /\ ~IterationRaises) =>
             slept' = collect_interval_seconds
       /\ IterationRaises =>
             FallsAsleep /\ slept' = error_sleep_seconds]_vars

\* The clock read 03:00:01 of a weekday: the market opens in 3599 s, and the
\* driver sleeps exactly that long.
C21_Witness ==
    /\ pc = "sleeping"
    /\ run = FALSE
    /\ time_of(now) = HM(3, 0) + 1
    /\ wait_time = 3599
    /\ slept = wait_time

-----------------------------------------------------------------------------
(* Claims about the handler of the main loop, checked under Spec *)

\* C22: an exception raised inside an iteration of the main loop (by
\* should_run, time_until_next_open, run_cycle or the set-up of its client
\* and sessions) is caught and logged by the loop, which sleeps 10 s and
\* then starts the next iteration; it ends neither the loop nor the process.
C22_LoopErrorContainment ==
    /\ [][IterationRaises =>
            /\ "Unexpected error in main loop" \in log'
            /\ FallsAsleep
            /\ slept' = 10
            /\ exit_code' = Running
            /\ "Pipeline crashed" \notin log']_vars
    /\ [][(pc = "sleeping" /\ pc' # "sleeping") =>
            pc' = "loop" /\ now' = sleep_until]_vars
    /\ []("Unexpected error in main loop" \in log =>
            /\ pc # "exited"
            /\ exit_code = Running
            /\ "Pipeline crashed" \notin log)

\* The first iteration raised at 10:00, the loop slept its 10 s, and the
\* second iteration is collecting.
C22_Witness ==
    /\ "Unexpected error in main loop" \in log
    /\ iterations = 2
    /\ pc = "fetch"
    /\ now \in {combine(d, HM(10, 0)) + 10 + s : d \in {0, 1, 2}, s \in {0, 1, 2}}
    /\ exit_code = Running

-----------------------------------------------------------------------------
(* Claims about a failed save, checked under StoreSpec *)

\* A step in which save_trades / save_quotes raises to collect_ticker.
SaveRaises ==
    pc = "save" /\ pc' = "session_exit" /\ error' = "SQLAlchemyError"

\* C23: when the insert of a batch or its commit fails, the repository
\* rolls back, logs and raises the error to its caller, and both tables are
\* after the failed save what they were before it: no row of the batch has
\* become visible.
C23_WriteErrorHandling ==
    [][SaveRaises =>
          /\ trades' = trades
          /\ quotes' = quotes
          /\ "Failed to save" \in log'
          /\ collected' = Append(collected, [ticker |-> ticker,
                                             error |-> "SQLAlchemyError",
                                             client |-> Len(clients)])]_vars

\* The trades of the ticker are stored and the save of its quotes has
\* failed: no quote is stored, though the batch held one to insert.
C23_Witness ==
    /\ pc = "session_exit"
    /\ error = "SQLAlchemyError"
    /\ resource = "quotes"
    /\ executes_statement(buffer)
    /\ save_quotes(quotes, ticker, buffer) # quotes
    /\ trades # <<>>
    /\ quotes = <<>>
    /\ "Failed to save" \in log

-----------------------------------------------------------------------------
(* Claims about the preload of the calendar, checked under Spec *)

LoadFailed == "Failed to load market calendar" \in log

\* C24: when the load of the calendar fails at start-up, the driver still
\* enters its main loop, the cache holds no row of the failed load, and the
\* clock answers as it does with an empty calendar: should_run() and
\* time_until_next_open() in the loop return what they return for no rows.
C24_CalendarLoadFailureNonFatal ==
    /\ [](LoadFailed =>
            /\ InMainLoop \/ pc \in {"fetch", "save", "session_exit",
                                     "client_exit"}
            /\ exit_code = Running
            /\ calendar_cache = EmptyCache)
    /\ [][(LoadFailed /\ Decides) =>
            /\ run' = should_run(hours, EmptyCache, now, now')
            /\ ~run' => wait_time'
                           = time_until_next_open(hours, EmptyCache, now')]_vars

-----------------------------------------------------------------------------
(* Claims about the RESTClient of a cycle, checked under ClientSpec *)

\* The clients that are open, by their place in the order of creation.
OpenClients == {i \in 1 .. Len(clients) : clients[i] = "open"}

\* run_cycle enters, and leaves, the with block of its RESTClient.
CycleBegins == pc = "run_cycle" /\ pc' = "fetch"

CycleFinishes == InCycle /\ ~InCycle'

\* C25: a cycle that runs creates exactly one RESTClient, passes it to the
\* collect_ticker call of every ticker of the cycle and closes it however
\* the cycle ends, by return or by exception; at most one client is open at
\* any time, none outside a cycle, and a cycle never uses the client of
\* another: its client is new, and a closed client is not used again.
C25_ClientScoping ==
    /\ [](/\ Cardinality(OpenClients) <= 1
          /\ OpenClients = (IF InCycle THEN {Len(clients)} ELSE {})
          /\ client = "open" <=> InCycle
          /\ InCycle =>
                \A i \in 1 .. Len(collected) :
                    collected[i].client = Len(clients))
    /\ [][/\ CycleBegins =>
                /\ Len(clients') = Len(clients) + 1
                /\ OpenClients = {}
          /\ ~CycleBegins => Len(clients') = Len(clients)
          /\ CycleFinishes => OpenClients' = {}
          /\ \A i \in 1 .. Len(clients) :
                clients[i] = "closed" => clients'[i] = "closed"
          /\ http_log' # http_log /\ http_log' # <<>> =>
                Len(clients) \in OpenClients]_vars

\* The second cycle was left by an exception after the first of its two
\* tickers: its client, the second one created, is closed like the first.
C25_Witness ==
    /\ pc = "sleeping"
    /\ clients = <<"closed", "closed">>
    /\ Len(collected) = 1
    /\ collected[1].client = 2
    /\ "Unexpected error in main loop" \in log

-----------------------------------------------------------------------------
(* Claims about sleeping towards the open, checked under Spec *)

\* The times of day at which a phase other than Closed can begin.
PhaseStarts(h) == {h.pre_market_open, h.regular_open, h.after_hours_open}

\* The first instant from t on whose phase is not Closed: t itself, or the
\* start of a phase on one of the days that follow.
NextNonClosed(h, cache, t) ==
    LET starts == {combine(d, b) : d \in date_of(t) .. (date_of(t) + NDays + 3),
                                   b \in PhaseStarts(h)}
        open == {x \in {t} \cup starts :
                    x >= t /\ get_market_phase(h, cache, x) # CLOSED}
    IN  CHOOSE x \in open : \A y \in open : x <= y

\* The bound on a sleep of the closed branch: it ends no later than
\* 1 s after the next instant that is not Closed, and lasts max(1 s,
\* time_until_next_open()) at most.
SleepEndsByNextOpen ==
    /\ sleep_until' <= NextNonClosed(hours, calendar_cache, now') + 1
    /\ slept' <= (IF wait_time' >= 1 THEN wait_time' ELSE 1)

\* C26: a sleep of the closed branch ends no later than 1 s after the
\* next instant whose phase is not Closed, because it lasts at
\* most max(1 s, time_until_next_open()) and time_until_next_open() never
\* exceeds the time until that instant.
C26_NeverSleepsThroughOpen ==
    [][(Decides /\ ~run') =>
          /\ SleepEndsByNextOpen
          /\ wait_time'
                <= NextNonClosed(hours, calendar_cache, now') - now']_vars

-----------------------------------------------------------------------------
(* Claims about the two reads of the clock in one iteration, checked under Spec *)

\* C27: an iteration that takes the run branch makes one full pass over the
\* tickers: the should_run() of run_cycle, which reads the clock again,
\* never turns the run the loop decided on into a skipped cycle followed by
\* the sleep of collect_interval_seconds.
C27_RunBranchCollects ==
    [][/\ (pc = "run_cycle" /\ pc' # "run_cycle" /\ ~IterationRaises) =>
             /\ pc' = "fetch"
             /\ ticker_idx' = 1
       /\ (InCycle /\ FallsAsleep /\ ~IterationRaises) =>
             CollectedTickers' = tickers
       /\ (FallsAsleep /\ run' /\ slept' = collect_interval_seconds) =>
             /\ pc = "client_exit"
             /\ "Market is closed. Skipping cycle." \in log' =>
                   "Market is closed. Skipping cycle." \in log]_vars

====
